---- MODULE Spec2Model ----
(***************************************************************************)
(* Model of the CNA_SQL reporting scripts: each script connects to the     *)
(* database through db_connection.get_connection, runs one fixed query     *)
(* with pd.read_sql, closes the connection, transforms the rows in memory  *)
(* (traffic-light classification, stock-status classification, pivots,     *)
(* month ordering) and renders with matplotlib.                            *)
(*                                                                         *)
(* Floating-point values are records [nan, v]: v is the value in           *)
(* hundredths for the KPI columns (the query rounds them to 2 decimals)    *)
(* and in units for the pivot cells; nan marks NaN, for which every        *)
(* comparison is false.  Strings that the code compares or parses (month   *)
(* labels) are sequences of character codes.                               *)
(***************************************************************************)
EXTENDS Integers, Sequences, FiniteSets, TLC

VARIABLES
    script,       \* which script is running
    pc,           \* position in the script's module body
    db,           \* what the database returns for the script's query
    conn,         \* "unset" | "open" | "None" | "closed"
    attempts,     \* number of pyodbc.connect calls made
    queries,      \* number of pd.read_sql calls made
    exitStatus,   \* process exit status, -1 while the script still runs
    output,       \* messages written to stdout/stderr, in order
    shown,        \* number of plt.show() calls made
    df,           \* the DataFrame, a sequence of row records
    months,       \* monthly_performance(kpis).py: months
    colors,       \* monthly_performance(kpis).py: colors, per kpi
    last3months,  \* monthly_performance(kpis).py: last3months
    pivot_df,     \* store_vs_product.py / storeid_...: pivot_df
    pivot_heat,   \* storeid_numberofproducts_stock.py: pivot_heat
    arg,          \* argument of a classifier call made on its own
    ret           \* what that call returned

vars == <<script, pc, db, conn, attempts, queries, exitStatus, output, shown,
          df, months, colors, last3months, pivot_df, pivot_heat, arg, ret>>

(***************************************************************************)
(* Bounds of the model.                                                    *)
(***************************************************************************)
MaxCenti == 10100
MaxInv == 9
MaxOrd == 9
MaxMonthRows == 4
MaxHeatRows == 3
MaxStatusRows == 3

(***************************************************************************)
(* Floats, strings, sequences.                                             *)
(***************************************************************************)
Num(x) == [nan |-> FALSE, v |-> x]
NaN == [nan |-> TRUE, v |-> 0]

FGt(a, t) == ~a.nan /\ a.v > t
FGe(a, t) == ~a.nan /\ a.v >= t
FLt(a, t) == ~a.nan /\ a.v < t
FLe(a, t) == ~a.nan /\ a.v <= t

Range(s) == {s[i] : i \in 1..Len(s)}

SeqsUpTo(S, n) == UNION {[1..k -> S] : k \in 0..n}

\* Sequences over S of length <= n whose rows differ pairwise in key(row).
KeyedSeqsUpTo(S, n, key(_)) ==
    {s \in SeqsUpTo(S, n) :
        \A i, j \in 1..Len(s) : i # j => key(s[i]) # key(s[j])}

\* Python's str comparison a < b: by code point, a proper prefix is smaller.
StrLess(a, b) ==
    \E i \in 1..(Len(a) + 1) :
        /\ \A j \in 1..(i - 1) : j <= Len(b) /\ a[j] = b[j]
        /\ i <= Len(b)
        /\ (i > Len(a) \/ a[i] < b[i])

(***************************************************************************)
(* db_connection.py                                                        *)
(***************************************************************************)
\* get_connection(): pyodbc.connect is tried once; a pyodbc.Error is caught,
\* reported on stdout and turned into None.
get_connection(reachable) ==
    IF reachable
    THEN [conn |-> "open", printed |-> <<>>]
    ELSE [conn |-> "None", printed |-> <<"Error connecting to database:">>]

(***************************************************************************)
(* MatplotLib_code/monthly_performance(kpis).py                            *)
(***************************************************************************)
kpi_list ==
    <<"average_stock_level", "stockout_rate", "inventory_turnover",
      "sell_through_rate">>

color_map ==
    [green |-> "#4caf50", yellow |-> "#ffeb3b", red |-> "#f44336",
     gray |-> "#888888"]

Digit(d) == 48 + d

\* DATE_FORMAT(snapshot_date, '%Y-%m') of a date in year p[1], month p[2]:
\* four year digits, '-', two month digits.
DATE_FORMAT_NoPad(p) ==
    <<Digit(p[1] \div 1000), Digit((p[1] \div 100) % 10),
      Digit((p[1] \div 10) % 10), Digit(p[1] % 10), 45>>
    \o (IF p[2] < 10 THEN <<Digit(p[2])>>
        ELSE <<Digit(p[2] \div 10), Digit(p[2] % 10)>>)

DATE_FORMAT(p) ==
    <<Digit(p[1] \div 1000), Digit((p[1] \div 100) % 10),
      Digit((p[1] \div 10) % 10), Digit(p[1] % 10), 45,
      Digit(p[2] \div 10), Digit(p[2] % 10)>>

\* The query: one row per (store_id, month) group, the KPI columns rounded
\* to 2 decimals (NULL, read as NaN, where NULLIF or AVG yields NULL),
\* ORDER BY store_id, month (month compared as a string).
KpiSelect(g) ==
    [store_id |-> g.store_id,
     month |-> DATE_FORMAT(g.period),
     average_stock_level |-> g.average_stock_level,
     stockout_rate |-> g.stockout_rate,
     inventory_turnover |-> g.inventory_turnover,
     sell_through_rate |-> g.sell_through_rate]

RECURSIVE OrderByStoreMonth(_)
OrderByStoreMonth(rows) ==
    IF rows = {} THEN <<>>
    ELSE LET first == CHOOSE r \in rows : \A q \in rows \ {r} :
                          \/ r.store_id < q.store_id
                          \/ /\ r.store_id = q.store_id
                             /\ StrLess(r.month, q.month)
         IN <<first>> \o OrderByStoreMonth(rows \ {first})

KpiQuery(groups) == OrderByStoreMonth({KpiSelect(g) : g \in groups})

\* traffic_light(val, kpi); the thresholds 100, 70, 0.1, 0.3, 2.5, 1.5, 70, 50
\* are written in hundredths.
traffic_light_StrictYellow(val, kpi) ==
    IF kpi = "average_stock_level" THEN
        IF FGt(val, 10000) THEN "green"
        ELSE IF FGt(val, 7000) THEN "yellow"
        ELSE "red"
    ELSE IF kpi = "stockout_rate" THEN
        IF FLt(val, 10) THEN "green"
        ELSE IF FLt(val, 30) THEN "yellow"
        ELSE "red"
    ELSE IF kpi = "inventory_turnover" THEN
        IF FGt(val, 250) THEN "green"
        ELSE IF FGt(val, 150) THEN "yellow"
        ELSE "red"
    ELSE IF kpi = "sell_through_rate" THEN
        IF FGt(val, 7000) THEN "green"
        ELSE IF FGt(val, 5000) THEN "yellow"
        ELSE "red"
    ELSE "gray"

traffic_light_Gap(val, kpi) ==
    IF kpi = "average_stock_level" THEN
        IF FGt(val, 10000) THEN "green"
        ELSE IF FGt(val, 7000) THEN "yellow"
        ELSE IF FLt(val, 7000) THEN "red"
        ELSE "gray"
    ELSE IF kpi = "stockout_rate" THEN
        IF FLt(val, 10) THEN "green"
        ELSE IF FLe(val, 30) THEN "yellow"
        ELSE "red"
    ELSE IF kpi = "inventory_turnover" THEN
        IF FGt(val, 250) THEN "green"
        ELSE IF FGe(val, 150) THEN "yellow"
        ELSE "red"
    ELSE IF kpi = "sell_through_rate" THEN
        IF FGt(val, 7000) THEN "green"
        ELSE IF FGe(val, 5000) THEN "yellow"
        ELSE "red"
    ELSE "gray"

traffic_light(val, kpi) ==
    IF kpi = "average_stock_level" THEN
        IF FGt(val, 10000) THEN "green"
        ELSE IF FGe(val, 7000) THEN "yellow"
        ELSE "red"
    ELSE IF kpi = "stockout_rate" THEN
        IF FLt(val, 10) THEN "green"
        ELSE IF FLe(val, 30) THEN "yellow"
        ELSE "red"
    ELSE IF kpi = "inventory_turnover" THEN
        IF FGt(val, 250) THEN "green"
        ELSE IF FGe(val, 150) THEN "yellow"
        ELSE "red"
    ELSE IF kpi = "sell_through_rate" THEN
        IF FGt(val, 7000) THEN "green"
        ELSE IF FGe(val, 5000) THEN "yellow"
        ELSE "red"
    ELSE "gray"

\* Series.unique(): the distinct values in order of first appearance.
RECURSIVE Unique(_)
Unique(s) ==
    IF s = <<>> THEN <<>>
    ELSE LET front == Unique(SubSeq(s, 1, Len(s) - 1))
             x == s[Len(s)]
         IN IF x \in Range(front) THEN front ELSE Append(front, x)

\* sorted() on a list of str: ascending by StrLess, stable.
RECURSIVE InsertStr(_, _)
InsertStr(acc, x) ==
    IF acc = <<>> THEN <<x>>
    ELSE IF StrLess(x, acc[Len(acc)])
         THEN Append(InsertStr(SubSeq(acc, 1, Len(acc) - 1), x), acc[Len(acc)])
         ELSE Append(acc, x)

RECURSIVE sorted(_)
sorted(s) ==
    IF s = <<>> THEN <<>>
    ELSE InsertStr(sorted(SubSeq(s, 1, Len(s) - 1)), s[Len(s)])

\* s[-3:]
Last3(s) == SubSeq(s, IF Len(s) > 3 THEN Len(s) - 2 ELSE 1, Len(s))

Column(frame, name) == [i \in 1..Len(frame) |-> frame[i][name]]

(***************************************************************************)
(* MatplotLib_code/store_vs_product.py                                     *)
(***************************************************************************)
\* get_stock_status(row); inventory_level < units_ordered * 0.5 is written
\* 2 * inventory_level < units_ordered.
get_stock_status_RatioFirst(row) ==
    IF 2 * row.inventory_level < row.units_ordered THEN "Below Reorder"
    ELSE IF row.inventory_level = 0 THEN "Out of Stock"
    ELSE IF row.inventory_level < row.units_ordered THEN "Near Reorder"
    ELSE "Adequate"

get_stock_status_Divide(row) ==
    IF row.inventory_level = 0 THEN "Out of Stock"
    ELSE IF row.units_ordered = 0 THEN "ZeroDivisionError"
    ELSE IF 2 * row.inventory_level < row.units_ordered THEN "Below Reorder"
    ELSE IF row.inventory_level < row.units_ordered THEN "Near Reorder"
    ELSE "Adequate"

get_stock_status(row) ==
    IF row.inventory_level = 0 THEN "Out of Stock"
    ELSE IF 2 * row.inventory_level < row.units_ordered THEN "Below Reorder"
    ELSE IF row.inventory_level < row.units_ordered THEN "Near Reorder"
    ELSE "Adequate"

status_labels == <<"Out of Stock", "Below Reorder", "Near Reorder", "Adequate">>

\* status_map = {label: i for i, label in enumerate(status_labels)}
status_map ==
    [label \in Range(status_labels) |->
        (CHOOSE i \in 1..Len(status_labels) : status_labels[i] = label) - 1]

SetMin(S) == CHOOSE x \in S : \A y \in S : x <= y
SetMax(S) == CHOOSE x \in S : \A y \in S : x >= y

\* df.pivot_table(index="product_id", columns="store_id",
\*                values="Status_Code", aggfunc="min"):
\* one row per observed product, one column per observed store, the cell the
\* aggregate of the group's values, NaN for a pair with no row.
HeatPivotTable_Max(frame) ==
    LET index == {r.product_id : r \in Range(frame)}
        columns == {r.store_id : r \in Range(frame)}
        group(p, s) == {r.Status_Code : r \in
                          {x \in Range(frame) : x.product_id = p /\ x.store_id = s}}
    IN [index |-> index, columns |-> columns,
        cell |-> [k \in index \X columns |->
                    IF group(k[1], k[2]) = {} THEN NaN
                    ELSE Num(SetMax(group(k[1], k[2])))]]

HeatPivotTable(frame) ==
    LET index == {r.product_id : r \in Range(frame)}
        columns == {r.store_id : r \in Range(frame)}
        group(p, s) == {r.Status_Code : r \in
                          {x \in Range(frame) : x.product_id = p /\ x.store_id = s}}
    IN [index |-> index, columns |-> columns,
        cell |-> [k \in index \X columns |->
                    IF group(k[1], k[2]) = {} THEN NaN
                    ELSE Num(SetMin(group(k[1], k[2])))]]

(***************************************************************************)
(* MatplotLib_code/storeid_numberofproducts_stock.py                       *)
(***************************************************************************)
status_order ==
    <<"Out of Stock", "Below Reorder", "Near Reorder", "Adequate Stock">>

RECURSIVE SumOver(_, _)
SumOver(S, f) ==
    IF S = {} THEN 0
    ELSE LET x == CHOOSE y \in S : TRUE
         IN f[x] + SumOver(S \ {x}, f)

\* df.pivot_table(index=['store_id', 'region'], columns='stock_status',
\*                values='product_count', fill_value=0): aggfunc is the
\* default mean (the query returns one row per group, so the mean is that
\* row's count); a pair with no row gets fill_value.
StatusPivotTable_NoFill(frame) ==
    LET index == {<<r.store_id, r.region>> : r \in Range(frame)}
        columns == {r.stock_status : r \in Range(frame)}
        group(k, c) == {i \in 1..Len(frame) :
                          /\ frame[i].store_id = k[1]
                          /\ frame[i].region = k[2]
                          /\ frame[i].stock_status = c}
        count == [i \in 1..Len(frame) |-> frame[i].product_count]
    IN [index |-> index, columns |-> columns,
        cell |-> [k \in index \X columns |->
                    IF group(k[1], k[2]) = {} THEN NaN
                    ELSE Num(SumOver(group(k[1], k[2]), count)
                               \div Cardinality(group(k[1], k[2])))]]

StatusPivotTable(frame) ==
    LET index == {<<r.store_id, r.region>> : r \in Range(frame)}
        columns == {r.stock_status : r \in Range(frame)}
        group(k, c) == {i \in 1..Len(frame) :
                          /\ frame[i].store_id = k[1]
                          /\ frame[i].region = k[2]
                          /\ frame[i].stock_status = c}
        count == [i \in 1..Len(frame) |-> frame[i].product_count]
    IN [index |-> index, columns |-> columns,
        cell |-> [k \in index \X columns |->
                    IF group(k[1], k[2]) = {} THEN Num(0)
                    ELSE Num(SumOver(group(k[1], k[2]), count)
                               \div Cardinality(group(k[1], k[2])))]]

\* for status in status_order: if status not in pivot_df.columns:
\*     pivot_df[status] = 0
EnsureColumns(p) ==
    LET columns == p.columns \cup Range(status_order)
    IN [index |-> p.index, columns |-> columns,
        cell |-> [k \in p.index \X columns |->
                    IF k[2] \in p.columns THEN p.cell[k] ELSE Num(0)]]

FAdd(a, b) == IF a.nan \/ b.nan THEN NaN ELSE Num(a.v + b.v)

\* heatmap_df['Total_Issues']
Total_Issues(p, k) ==
    FAdd(FAdd(p.cell[<<k, "Out of Stock">>], p.cell[<<k, "Below Reorder">>]),
         p.cell[<<k, "Near Reorder">>])

\* heatmap_df.pivot(index='region', columns='store_id', values='Total_Issues')
HeatmapPivot(p) ==
    LET index == {k[2] : k \in p.index}
        columns == {k[1] : k \in p.index}
    IN [index |-> index, columns |-> columns,
        cell |-> [c \in index \X columns |->
                    IF <<c[2], c[1]>> \in p.index
                    THEN Total_Issues(p, <<c[2], c[1]>>)
                    ELSE NaN]]

\* .fillna(0)
fillna0(m) ==
    [index |-> m.index, columns |-> m.columns,
     cell |-> [c \in DOMAIN m.cell |->
                 IF m.cell[c].nan THEN Num(0) ELSE m.cell[c]]]

(***************************************************************************)
(* SellThroughRate_Region_plot.py, Monthly_STR_UnitsSold_Inventory_plot.py *)
(***************************************************************************)
\* .str.replace('\x00', '', regex=False).str.strip()
StripChars(label) ==
    LET noNul == SelectSeq(label, LAMBDA c : c # 0)
        isSpace(c) == c \in {9, 10, 11, 12, 13, 32}
        first == IF \E i \in 1..Len(noNul) : ~isSpace(noNul[i])
                 THEN SetMin({i \in 1..Len(noNul) : ~isSpace(noNul[i])})
                 ELSE 1
        last == IF \E i \in 1..Len(noNul) : ~isSpace(noNul[i])
                THEN SetMax({i \in 1..Len(noNul) : ~isSpace(noNul[i])})
                ELSE 0
    IN SubSeq(noNul, first, last)

IsDigit(c) == c \in 48..57

\* pd.to_datetime(label, format='%Y-%m', errors='coerce'): the period, or
\* NaT for a label that is not four year digits, '-', one or two month
\* digits of a month 1..12.
to_datetime(label) ==
    LET n == Len(label)
        wellFormed ==
            /\ n \in {6, 7}
            /\ \A i \in 1..4 : IsDigit(label[i])
            /\ label[5] = 45
            /\ \A i \in 6..n : IsDigit(label[i])
        year == 1000 * (label[1] - 48) + 100 * (label[2] - 48)
                  + 10 * (label[3] - 48) + (label[4] - 48)
        month == IF n = 7 THEN 10 * (label[6] - 48) + (label[7] - 48)
                 ELSE label[6] - 48
    IN IF wellFormed /\ month \in 1..12 /\ year >= 1
       THEN [nat |-> FALSE, year |-> year, month |-> month]
       ELSE [nat |-> TRUE, year |-> 0, month |-> 0]

\* The cleaning block: strip the Region and Month strings, parse Month,
\* drop the rows whose Month is NaT.
CleanFrame(frame) ==
    LET parsed == [i \in 1..Len(frame) |->
                     [Region |-> StripChars(frame[i].Region),
                      Month |-> to_datetime(StripChars(frame[i].Month))]]
    IN SelectSeq(parsed, LAMBDA r : ~r.Month.nat)

(***************************************************************************)
(* The scripts and the result sets their queries are given.                *)
(***************************************************************************)
Scripts ==
    {"monthly_performance", "store_vs_product", "store_status",
     "str_region", "monthly_str", "seasonal_demand"}

\* Rows of inventory_snapshots grouped by (store_id, month): the group's
\* store, the year and month of its snapshot dates, its four KPI values.
KpiGroup(store, period, avg, stockout, turnover, sellthrough) ==
    [store_id |-> store, period |-> period, average_stock_level |-> avg,
     stockout_rate |-> stockout, inventory_turnover |-> turnover,
     sell_through_rate |-> sellthrough]

KpiGroups ==
    <<KpiGroup(1, <<2023, 12>>, Num(12000), Num(5), Num(300), Num(8000)),
      KpiGroup(1, <<2024, 1>>, Num(7000), Num(30), NaN, NaN),
      KpiGroup(2, <<2023, 12>>, Num(6999), Num(31), Num(149), Num(4999))>>

HeatRows ==
    <<[store_id |-> 1, product_id |-> 101, inventory_level |-> 0,
       units_ordered |-> 0],
      [store_id |-> 1, product_id |-> 101, inventory_level |-> 5,
       units_ordered |-> 4],
      [store_id |-> 2, product_id |-> 102, inventory_level |-> 1,
       units_ordered |-> 4]>>

StatusRows ==
    <<[store_id |-> 1, region |-> "East", stock_status |-> "Out of Stock",
       product_count |-> 2],
      [store_id |-> 1, region |-> "East", stock_status |-> "Adequate Stock",
       product_count |-> 5],
      [store_id |-> 2, region |-> "West", stock_status |-> "Near Reorder",
       product_count |-> 1]>>

\* "East", DATE_FORMAT month labels as the driver hands them over: clean,
\* padded with NUL characters, or NULL (astype(str) makes it "None").
RegionRows ==
    <<[Region |-> <<69, 97, 115, 116>>, Month |-> DATE_FORMAT(<<2023, 12>>)],
      [Region |-> <<69, 97, 115, 116, 0>>,
       Month |-> DATE_FORMAT(<<2024, 1>>) \o <<0, 0>>],
      [Region |-> <<69, 97, 115, 116>>, Month |-> <<78, 111, 110, 101>>]>>

\* The status query: GROUP BY store_id, region, stock_status, so one row
\* per group, ORDER BY store_id (the order within a store is the server's).
RECURSIVE OrderByStore(_)
OrderByStore(rows) ==
    IF rows = {} THEN <<>>
    ELSE LET first == CHOOSE r \in rows : \A q \in rows :
                          r.store_id <= q.store_id
         IN <<first>> \o OrderByStore(rows \ {first})

SeasonRows ==
    <<[category |-> "Toys", season_name |-> "Winter", avg_units_sold |-> 10]>>

Prefixes(s, least) == {SubSeq(s, 1, n) : n \in least..Len(s)}

ResultSets(s) ==
    CASE s = "monthly_performance" ->
             {Range(q) : q \in Prefixes(KpiGroups, 0)}
      [] s = "store_vs_product" -> Prefixes(HeatRows, 1)
      [] s = "store_status" -> {Range(q) : q \in Prefixes(StatusRows, 1)}
      [] s \in {"str_region", "monthly_str"} -> Prefixes(RegionRows, 1)
      [] s = "seasonal_demand" -> Prefixes(SeasonRows, 0)

\* What pd.read_sql returns for the script's query.
read_sql(s, rows) ==
    IF s = "monthly_performance" THEN KpiQuery(rows)
    ELSE IF s = "store_status" THEN OrderByStore(rows)
    ELSE rows

EmptyFrame == [index |-> {}, columns |-> {}, cell |-> <<>>]

\* The first statement after conn.close().
AfterClose(s) ==
    CASE s = "monthly_performance" -> "months"
      [] s = "store_vs_product" -> "stock_status"
      [] s = "store_status" -> "pivot"
      [] s \in {"str_region", "monthly_str"} -> "clean"
      [] s = "seasonal_demand" -> "plot"

\* What the script writes between finding conn is None and exiting.
ExitMessage(s) ==
    IF s \in {"monthly_performance", "seasonal_demand"}
    THEN <<"Database connection failed.">>
    ELSE IF s = "store_status" THEN <<"Failed to connect to database.">>
    ELSE <<>>

Init ==
    /\ script \in Scripts
    /\ db \in ResultSets(script)
    /\ pc = "connect"
    /\ conn = "unset"
    /\ attempts = 0
    /\ queries = 0
    /\ exitStatus = -1
    /\ output = <<>>
    /\ shown = 0
    /\ df = <<>>
    /\ months = <<>>
    /\ colors = <<>>
    /\ last3months = <<>>
    /\ pivot_df = EmptyFrame
    /\ pivot_heat = EmptyFrame
    /\ arg = <<>>
    /\ ret = <<>>

(***************************************************************************)
(* Connect, query, close: the head of every script.                        *)
(***************************************************************************)
\* conn = get_connection()
GetConnection ==
    /\ pc = "connect"
    /\ \E reachable \in BOOLEAN :
        LET r == get_connection(reachable)
        IN /\ conn' = r.conn
           /\ output' = output \o r.printed
    /\ attempts' = attempts + 1
    /\ pc' = "check"
    /\ UNCHANGED <<script, db, queries, exitStatus, shown, df, months, colors,
                   last3months, pivot_df, pivot_heat, arg, ret>>

\* if conn is None: [print(...)]; exit(1)   (exit("...") prints and exits 1)
ConnCheck_NoExit ==
    /\ pc = "check"
    /\ pc' = "query"
    /\ UNCHANGED <<script, db, conn, attempts, queries, exitStatus, output,
                   shown, df, months, colors, last3months, pivot_df,
                   pivot_heat, arg, ret>>

ConnCheck ==
    /\ pc = "check"
    /\ IF conn = "None"
       THEN /\ output' = output \o ExitMessage(script)
            /\ exitStatus' = 1
            /\ pc' = "exited"
       ELSE /\ pc' = "query"
            /\ UNCHANGED <<output, exitStatus>>
    /\ UNCHANGED <<script, db, conn, attempts, queries, shown, df, months,
                   colors, last3months, pivot_df, pivot_heat, arg, ret>>

\* df = pd.read_sql(query, conn): the rows, or an exception that nothing
\* catches, which ends the script with a traceback and status 1.
ReadSql ==
    /\ pc = "query"
    /\ queries' = queries + 1
    /\ \E ok \in BOOLEAN :
        IF ok
        THEN /\ df' = read_sql(script, db)
             /\ pc' = "close"
             /\ UNCHANGED <<output, exitStatus>>
        ELSE /\ output' = Append(output, "Traceback (most recent call last):")
             /\ exitStatus' = 1
             /\ pc' = "exited"
             /\ UNCHANGED df
    /\ UNCHANGED <<script, db, conn, attempts, shown, months, colors,
                   last3months, pivot_df, pivot_heat, arg, ret>>

\* conn.close()
ConnClose ==
    /\ pc = "close"
    /\ conn' = "closed"
    /\ pc' = AfterClose(script)
    /\ UNCHANGED <<script, db, attempts, queries, exitStatus, output, shown,
                   df, months, colors, last3months, pivot_df, pivot_heat,
                   arg, ret>>

(***************************************************************************)
(* monthly_performance(kpis).py after the query.                           *)
(***************************************************************************)
\* stores = df['store_id'].unique()
Stores(frame) == Unique(Column(frame, "store_id"))

\* months = sorted(df['month'].unique())
ObservedMonths(frame) == sorted(Unique(Column(frame, "month")))

ComputeMonths ==
    /\ script = "monthly_performance"
    /\ pc = "months"
    /\ months' = ObservedMonths(df)
    /\ pc' = "dashboard"
    /\ UNCHANGED <<script, db, conn, attempts, queries, exitStatus, output,
                   shown, df, colors, last3months, pivot_df, pivot_heat,
                   arg, ret>>

\* [traffic_light(v, kpi) for v in sub[kpi]] for the rows sub of one store
Labels(frame, store, kpi) ==
    LET sub == SelectSeq(frame, LAMBDA r : r.store_id = store)
    IN [i \in 1..Len(sub) |-> traffic_light(sub[i][kpi], kpi)]

\* The dashboard loop: per kpi and store, colors = [color_map[...] ...];
\* a label color_map lacks raises KeyError, which ends the script.  Then
\* plt.show().
PlotDashboard ==
    /\ script = "monthly_performance"
    /\ pc = "dashboard"
    /\ LET stores == Range(Stores(df))
           kpis == Range(kpi_list)
           labels == [k \in kpis |-> [s \in stores |-> Labels(df, s, k)]]
       IN IF \A k \in kpis : \A s \in stores :
                 Range(labels[k][s]) \subseteq DOMAIN color_map
          THEN /\ colors' = [k \in kpis |-> [s \in stores |->
                               [i \in 1..Len(labels[k][s]) |->
                                   color_map[labels[k][s][i]]]]]
               /\ shown' = shown + 1
               /\ pc' = "sparklines"
               /\ UNCHANGED <<output, exitStatus>>
          ELSE /\ output' = Append(output, "Traceback (most recent call last):")
               /\ exitStatus' = 1
               /\ pc' = "exited"
               /\ UNCHANGED <<colors, shown>>
    /\ UNCHANGED <<script, db, conn, attempts, queries, df, months,
                   last3months, pivot_df, pivot_heat, arg, ret>>

\* last3months = sorted(months)[-3:]; the sparklines; plt.show(); the end
\* of the script.
PlotSparklines ==
    /\ script = "monthly_performance"
    /\ pc = "sparklines"
    /\ last3months' = Last3(sorted(months))
    /\ shown' = shown + 1
    /\ exitStatus' = 0
    /\ pc' = "done"
    /\ UNCHANGED <<script, db, conn, attempts, queries, output, df, months,
                   colors, pivot_df, pivot_heat, arg, ret>>

(***************************************************************************)
(* store_vs_product.py after the query.                                    *)
(***************************************************************************)
\* df["Stock_Status"] = df.apply(get_stock_status, axis=1)
ApplyStockStatus ==
    /\ script = "store_vs_product"
    /\ pc = "stock_status"
    /\ df' = [i \in 1..Len(df) |->
                [store_id |-> df[i].store_id,
                 product_id |-> df[i].product_id,
                 inventory_level |-> df[i].inventory_level,
                 units_ordered |-> df[i].units_ordered,
                 Stock_Status |-> get_stock_status(df[i])]]
    /\ pc' = "status_code"
    /\ UNCHANGED <<script, db, conn, attempts, queries, exitStatus, output,
                   shown, months, colors, last3months, pivot_df, pivot_heat,
                   arg, ret>>

\* df["Status_Code"] = df["Stock_Status"].map(status_map)
MapStatusCode ==
    /\ script = "store_vs_product"
    /\ pc = "status_code"
    /\ df' = [i \in 1..Len(df) |->
                [store_id |-> df[i].store_id,
                 product_id |-> df[i].product_id,
                 inventory_level |-> df[i].inventory_level,
                 units_ordered |-> df[i].units_ordered,
                 Stock_Status |-> df[i].Stock_Status,
                 Status_Code |-> status_map[df[i].Stock_Status]]]
    /\ pc' = "pivot"
    /\ UNCHANGED <<script, db, conn, attempts, queries, exitStatus, output,
                   shown, months, colors, last3months, pivot_df, pivot_heat,
                   arg, ret>>

\* pivot_df = df.pivot_table(...)
PivotStatusCodes ==
    /\ script = "store_vs_product"
    /\ pc = "pivot"
    /\ pivot_df' = HeatPivotTable(df)
    /\ pc' = "plot"
    /\ UNCHANGED <<script, db, conn, attempts, queries, exitStatus, output,
                   shown, df, months, colors, last3months, pivot_heat,
                   arg, ret>>

\* sns.heatmap(pivot_df, ...); plt.show(); the end of the script.
PlotStatusHeatmap ==
    /\ script = "store_vs_product"
    /\ pc = "plot"
    /\ shown' = shown + 1
    /\ exitStatus' = 0
    /\ pc' = "done"
    /\ UNCHANGED <<script, db, conn, attempts, queries, output, df, months,
                   colors, last3months, pivot_df, pivot_heat, arg, ret>>

(***************************************************************************)
(* storeid_numberofproducts_stock.py after the query.                      *)
(***************************************************************************)
\* pivot_df = df.pivot_table(...).reset_index(); the status_order loop;
\* sort_values.
PivotCounts ==
    /\ script = "store_status"
    /\ pc = "pivot"
    /\ pivot_df' = EnsureColumns(StatusPivotTable(df))
    /\ pc' = "bars"
    /\ UNCHANGED <<script, db, conn, attempts, queries, exitStatus, output,
                   shown, df, months, colors, last3months, pivot_heat,
                   arg, ret>>

\* The stacked bar chart; plt.show().
PlotBars ==
    /\ script = "store_status"
    /\ pc = "bars"
    /\ shown' = shown + 1
    /\ pc' = "issues"
    /\ UNCHANGED <<script, db, conn, attempts, queries, exitStatus, output,
                   df, months, colors, last3months, pivot_df, pivot_heat,
                   arg, ret>>

\* Total_Issues; pivot_heat = heatmap_df.pivot(...).fillna(0); the heatmap;
\* plt.show(); the end of the script.
PlotIssues ==
    /\ script = "store_status"
    /\ pc = "issues"
    /\ pivot_heat' = fillna0(HeatmapPivot(pivot_df))
    /\ shown' = shown + 1
    /\ exitStatus' = 0
    /\ pc' = "done"
    /\ UNCHANGED <<script, db, conn, attempts, queries, output, df, months,
                   colors, last3months, pivot_df, arg, ret>>

(***************************************************************************)
(* The region plots and the seasonal plot after the query.                 *)
(***************************************************************************)
CleanData ==
    /\ script \in {"str_region", "monthly_str"}
    /\ pc = "clean"
    /\ df' = CleanFrame(df)
    /\ pc' = "plot"
    /\ UNCHANGED <<script, db, conn, attempts, queries, exitStatus, output,
                   shown, months, colors, last3months, pivot_df, pivot_heat,
                   arg, ret>>

\* The plot; plt.show(); the end of the script.
PlotRegions ==
    /\ script \in {"str_region", "monthly_str"}
    /\ pc = "plot"
    /\ shown' = shown + 1
    /\ exitStatus' = 0
    /\ pc' = "done"
    /\ UNCHANGED <<script, db, conn, attempts, queries, output, df, months,
                   colors, last3months, pivot_df, pivot_heat, arg, ret>>

PlotSeasons ==
    /\ script = "seasonal_demand"
    /\ pc = "plot"
    /\ shown' = shown + 1
    /\ exitStatus' = 0
    /\ pc' = "done"
    /\ UNCHANGED <<script, db, conn, attempts, queries, output, df, months,
                   colors, last3months, pivot_df, pivot_heat, arg, ret>>

Next ==
    \/ GetConnection
    \/ ConnCheck
    \/ ReadSql
    \/ ConnClose
    \/ ComputeMonths
    \/ PlotDashboard
    \/ PlotSparklines
    \/ ApplyStockStatus
    \/ MapStatusCode
    \/ PivotStatusCodes
    \/ PlotStatusHeatmap
    \/ PivotCounts
    \/ PlotBars
    \/ PlotIssues
    \/ CleanData
    \/ PlotRegions
    \/ PlotSeasons

Spec == Init /\ [][Next]_vars

(***************************************************************************)
(* Runs taken up after conn.close(), over larger result sets.              *)
(***************************************************************************)
\* The state of script s right after conn.close(), the query having
\* returned the rows d.
Closed(s, d) ==
    /\ script = s
    /\ db = d
    /\ pc = AfterClose(s)
    /\ conn = "closed"
    /\ attempts = 1
    /\ queries = 1
    /\ exitStatus = -1
    /\ output = <<>>
    /\ shown = 0
    /\ df = read_sql(s, d)
    /\ months = <<>>
    /\ colors = <<>>
    /\ last3months = <<>>
    /\ pivot_df = EmptyFrame
    /\ pivot_heat = EmptyFrame
    /\ arg = <<>>
    /\ ret = <<>>

SubsetsUpTo(S, least, most) ==
    {T \in SUBSET S : Cardinality(T) >= least /\ Cardinality(T) <= most}

\* Months on both sides of a year end and of the one-digit/two-digit months.
Periods ==
    {<<1999, 12>>, <<2000, 1>>, <<2023, 2>>, <<2023, 9>>, <<2023, 10>>,
     <<2023, 12>>, <<2024, 1>>, <<2024, 2>>}

MonthGroups ==
    {KpiGroup(s, p, Num(12000), Num(5), NaN, Num(5000)) :
        s \in {1, 2}, p \in Periods}

InitMonths ==
    \E d \in SubsetsUpTo(MonthGroups, 0, MaxMonthRows) :
        Closed("monthly_performance", d)

NextMonths ==
    \/ ComputeMonths
    \/ PlotDashboard
    \/ PlotSparklines

SpecMonths == InitMonths /\ [][NextMonths]_vars

\* One (inventory_level, units_ordered) pair per stock status.
Levels == {<<0, 0>>, <<1, 4>>, <<3, 4>>, <<5, 4>>}

SnapshotRows ==
    {[store_id |-> s, product_id |-> p, inventory_level |-> l[1],
      units_ordered |-> l[2]] : s \in {1, 2}, p \in {101, 102}, l \in Levels}

InitHeat ==
    \E d \in SeqsUpTo(SnapshotRows, MaxHeatRows) :
        /\ d # <<>>
        /\ Closed("store_vs_product", d)

NextHeat ==
    \/ ApplyStockStatus
    \/ MapStatusCode
    \/ PivotStatusCodes
    \/ PlotStatusHeatmap

SpecHeat == InitHeat /\ [][NextHeat]_vars

StatusKeys == {1, 2} \X {"East", "West"} \X Range(status_order)

StatusResults ==
    UNION {{{[store_id |-> k[1], region |-> k[2], stock_status |-> k[3],
              product_count |-> f[k]] : k \in K} : f \in [K -> {1, 5}]} :
              K \in SubsetsUpTo(StatusKeys, 1, MaxStatusRows)}

InitStatus == \E d \in StatusResults : Closed("store_status", d)

NextStatus ==
    \/ PivotCounts
    \/ PlotBars
    \/ PlotIssues

SpecStatus == InitStatus /\ [][NextStatus]_vars

(***************************************************************************)
(* The classifiers called on their own.                                    *)
(***************************************************************************)
Calling(s, a) ==
    /\ script = s
    /\ db = <<>>
    /\ pc = "call"
    /\ conn = "closed"
    /\ attempts = 1
    /\ queries = 1
    /\ exitStatus = -1
    /\ output = <<>>
    /\ shown = 0
    /\ df = <<>>
    /\ months = <<>>
    /\ colors = <<>>
    /\ last3months = <<>>
    /\ pivot_df = EmptyFrame
    /\ pivot_heat = EmptyFrame
    /\ arg = a
    /\ ret = <<>>

KpiValues == {Num(c) : c \in (0 - MaxCenti)..MaxCenti} \cup {NaN}

InitTrafficLight ==
    \E v \in KpiValues, k \in Range(kpi_list) \cup {"units_sold"} :
        Calling("monthly_performance", [val |-> v, kpi |-> k])

\* color_map[traffic_light(v, kpi)]
CallTrafficLight ==
    /\ script = "monthly_performance"
    /\ pc = "call"
    /\ LET label == traffic_light(arg.val, arg.kpi)
       IN ret' = [label |-> label,
                  colour |-> IF label \in DOMAIN color_map
                             THEN color_map[label] ELSE "KeyError"]
    /\ pc' = "returned"
    /\ UNCHANGED <<script, db, conn, attempts, queries, exitStatus, output,
                   shown, df, months, colors, last3months, pivot_df,
                   pivot_heat, arg>>

NextTrafficLight == CallTrafficLight

SpecTrafficLight == InitTrafficLight /\ [][NextTrafficLight]_vars

InitStockStatus ==
    \E i \in 0..MaxInv, u \in 0..MaxOrd :
        Calling("store_vs_product",
                [inventory_level |-> i, units_ordered |-> u])

\* get_stock_status(row)
CallGetStockStatus ==
    /\ script = "store_vs_product"
    /\ pc = "call"
    /\ ret' = get_stock_status(arg)
    /\ pc' = "returned"
    /\ UNCHANGED <<script, db, conn, attempts, queries, exitStatus, output,
                   shown, df, months, colors, last3months, pivot_df,
                   pivot_heat, arg>>

NextStockStatus == CallGetStockStatus

SpecStockStatus == InitStockStatus /\ [][NextStockStatus]_vars

(***************************************************************************)
(* Properties.                                                             *)
(***************************************************************************)
Returned(s) == script = s /\ pc = "returned"

\* The threshold table of the traffic lights, in hundredths: the values
\* tabulated as green, as yellow and as red for each KPI.
TableGreen(kpi, c) ==
    \/ kpi = "average_stock_level" /\ c > 10000
    \/ kpi = "stockout_rate" /\ c < 10
    \/ kpi = "inventory_turnover" /\ c > 250
    \/ kpi = "sell_through_rate" /\ c > 7000

TableYellow(kpi, c) ==
    \/ kpi = "average_stock_level" /\ c >= 7000 /\ c <= 10000
    \/ kpi = "stockout_rate" /\ c >= 10 /\ c <= 30
    \/ kpi = "inventory_turnover" /\ c >= 150 /\ c <= 250
    \/ kpi = "sell_through_rate" /\ c >= 5000 /\ c <= 7000

TableRed(kpi, c) ==
    \/ kpi = "average_stock_level" /\ c < 7000
    \/ kpi = "stockout_rate" /\ c > 30
    \/ kpi = "inventory_turnover" /\ c < 150
    \/ kpi = "sell_through_rate" /\ c < 5000

\* C1: for each of the four KPIs and every number, traffic_light returns one
\* of green, yellow, red, and it is the colour of the one tabulated range
\* the value lies in: the three ranges leave no gap and do not overlap.
C1_TrafficLightPartition ==
    (Returned("monthly_performance") /\ arg.kpi \in Range(kpi_list)
       /\ ~arg.val.nan)
    => /\ ret.label \in {"green", "yellow", "red"}
       /\ (ret.label = "green") = TableGreen(arg.kpi, arg.val.v)
       /\ (ret.label = "yellow") = TableYellow(arg.kpi, arg.val.v)
       /\ (ret.label = "red") = TableRed(arg.kpi, arg.val.v)

C1_Witness ==
    /\ Returned("monthly_performance")
    /\ arg.kpi = "inventory_turnover"
    /\ arg.val = Num(149)
    /\ ret.label = "red"

\* C2: once a script renders or has ended, a connection it acquired is
\* closed, whether the query succeeded or failed.
C2_ConnectionAlwaysClosed ==
    (pc \in {"exited", "done"} \/ shown > 0) => conn # "open"

\* C3: when the database is unreachable the script connects once, never
\* queries, transforms or renders, reports the failure, and ends with a
\* non-zero exit status.
C3_ConnectionFailureIsFatal ==
    conn = "None"
    => /\ attempts = 1
       /\ queries = 0
       /\ shown = 0
       /\ df = <<>> /\ months = <<>> /\ colors = <<>> /\ last3months = <<>>
       /\ pivot_df = EmptyFrame /\ pivot_heat = EmptyFrame
       /\ output # <<>>
       /\ output[1] = "Error connecting to database:"
       /\ pc \in {"check", "exited"}
       /\ (pc = "check" => exitStatus = -1)
       /\ (pc = "exited" => exitStatus > 0)

C3_Witness ==
    /\ script = "store_status"
    /\ conn = "None"
    /\ pc = "exited"
    /\ exitStatus = 1
    /\ Len(output) = 2

\* C4: for a NaN value traffic_light returns gray, not green, yellow or
\* red, and the label it returns has a colour in color_map.
C4_NanIsGray ==
    (Returned("monthly_performance") /\ arg.val.nan)
    => /\ ret.label = "gray"
       /\ ret.label \in DOMAIN color_map
       /\ ret.colour = color_map[ret.label]

\* The ends of the tabulated yellow ranges, in hundredths.
YellowEnds ==
    {<<"average_stock_level", 7000>>, <<"average_stock_level", 10000>>,
     <<"stockout_rate", 10>>, <<"stockout_rate", 30>>,
     <<"inventory_turnover", 150>>, <<"inventory_turnover", 250>>,
     <<"sell_through_rate", 5000>>, <<"sell_through_rate", 7000>>}

\* C5: a value on either end of a KPI's yellow range classifies as yellow.
C5_BoundariesAreYellow ==
    (Returned("monthly_performance") /\ ~arg.val.nan
       /\ <<arg.kpi, arg.val.v>> \in YellowEnds)
    => ret.label = "yellow"

C5_Witness ==
    /\ Returned("monthly_performance")
    /\ arg.kpi = "average_stock_level"
    /\ arg.val = Num(7000)
    /\ ret.label = "yellow"

\* The ranks of the stock statuses, worst first.
StatusRank ==
    [s \in {"Out of Stock", "Below Reorder", "Near Reorder", "Adequate"} |->
        CASE s = "Out of Stock" -> 0
          [] s = "Below Reorder" -> 1
          [] s = "Near Reorder" -> 2
          [] s = "Adequate" -> 3]

PairRows(p, s) ==
    {i \in 1..Len(df) : df[i].product_id = p /\ df[i].store_id = s}

\* C6: every (product_id, store_id) cell of the status heatmap pivot that
\* has a row holds the lowest status rank among the rows of that pair.
C6_PivotKeepsWorstStatus ==
    (script = "store_vs_product" /\ pc \in {"plot", "done"})
    => \A i \in 1..Len(df) :
         LET k == <<df[i].product_id, df[i].store_id>>
             ranks == {StatusRank[df[j].Stock_Status] : j \in PairRows(k[1], k[2])}
         IN /\ k \in DOMAIN pivot_df.cell
            /\ ~pivot_df.cell[k].nan
            /\ pivot_df.cell[k].v \in ranks
            /\ \A r \in ranks : pivot_df.cell[k].v <= r

C6_Witness ==
    /\ script = "store_vs_product"
    /\ pc = "plot"
    /\ \E i, j \in 1..Len(df) :
         /\ df[i].product_id = df[j].product_id
         /\ df[i].store_id = df[j].store_id
         /\ df[i].Stock_Status = "Adequate"
         /\ df[j].Stock_Status = "Out of Stock"
         /\ pivot_df.cell[<<df[i].product_id, df[i].store_id>>] = Num(0)

HasRow(store, region, status) ==
    \E r \in db : r.store_id = store /\ r.region = region
                    /\ r.stock_status = status

\* C7: in the store-status script a (store, region) row of pivot_df holds 0
\* under each of the four statuses the query returned no row for, and a
\* (region, store) cell of pivot_heat with no row holds 0.
C7_MissingPairsAreZero ==
    /\ (script = "store_status" /\ pc \in {"bars", "issues", "done"})
       => \A r \in db : \A status \in Range(status_order) :
            /\ <<<<r.store_id, r.region>>, status>> \in DOMAIN pivot_df.cell
            /\ ~HasRow(r.store_id, r.region, status)
               => pivot_df.cell[<<<<r.store_id, r.region>>, status>>] = Num(0)
    /\ (script = "store_status" /\ pc = "done")
       => \A r, q \in db :
            /\ <<r.region, q.store_id>> \in DOMAIN pivot_heat.cell
            /\ (\A status \in Range(status_order) :
                  ~HasRow(q.store_id, r.region, status))
               => pivot_heat.cell[<<r.region, q.store_id>>] = Num(0)

C7_Witness ==
    /\ script = "store_status"
    /\ pc = "done"
    /\ \A r \in db : r.stock_status # "Below Reorder"
    /\ \E r, q \in db :
         /\ \A status \in Range(status_order) :
              ~HasRow(q.store_id, r.region, status)
         /\ pivot_heat.cell[<<r.region, q.store_id>>] = Num(0)
         /\ pivot_df.cell[<<<<r.store_id, r.region>>, "Below Reorder">>] = Num(0)

\* C8: get_stock_status returns "Out of Stock" for every row whose
\* inventory_level is 0, whatever units_ordered is.
C8_ZeroInventoryIsOutOfStock ==
    (Returned("store_vs_product") /\ arg.inventory_level = 0)
    => ret = "Out of Stock"

C8_Witness ==
    /\ Returned("store_vs_product")
    /\ arg.inventory_level = 0
    /\ arg.units_ordered = 0
    /\ ret = "Out of Stock"

\* C9: get_stock_status returns "Adequate", and raises nothing, for every
\* row with units_ordered = 0 and inventory_level > 0.
C9_NothingOrderedIsAdequate ==
    (Returned("store_vs_product") /\ arg.units_ordered = 0
       /\ arg.inventory_level > 0)
    => ret = "Adequate"

C9_Witness ==
    /\ Returned("store_vs_product")
    /\ arg.units_ordered = 0
    /\ arg.inventory_level = 1
    /\ ret = "Adequate"

\* Months since year 0 of a (year, month) pair.
Chron(p) == 12 * p[1] + p[2]

ObservedPeriods == {g.period : g \in db}

\* The observed periods no three observed periods are later than.
Latest3 ==
    {p \in ObservedPeriods :
        Cardinality({q \in ObservedPeriods : Chron(q) > Chron(p)}) < 3}

\* s lists the month labels of the periods P, each once, earliest first.
Chronological(s, P) ==
    /\ Len(s) = Cardinality(P)
    /\ Range(s) = {DATE_FORMAT(p) : p \in P}
    /\ \A p, q \in P : \A i, j \in 1..Len(s) :
         (s[i] = DATE_FORMAT(p) /\ s[j] = DATE_FORMAT(q) /\ i < j)
         => Chron(p) < Chron(q)

\* C10: the sorted month list is in chronological order, also across a
\* year end, and last3months is the three latest observed months.
C10_MonthsChronological ==
    /\ (script = "monthly_performance" /\ pc \in {"dashboard", "sparklines", "done"})
       => Chronological(months, ObservedPeriods)
    /\ (script = "monthly_performance" /\ pc = "done")
       => Chronological(last3months, Latest3)

C10_Witness ==
    /\ script = "monthly_performance"
    /\ pc = "done"
    /\ Len(months) = 4
    /\ Len(last3months) = 3
    /\ <<2023, 12>> \in Latest3
    /\ <<2024, 1>> \in Latest3
    /\ <<2023, 10>> \in ObservedPeriods \ Latest3

====
